---- MODULE Spec2Model ----
(***************************************************************************)
(* Data-element usage overview (data_element_usage_insights.py).           *)
(*                                                                         *)
(* The script fetches the data elements, rules, rule components and        *)
(* extensions of a property, classifies the rule components, searches      *)
(* every entity's serialized attributes for every data element's enclosed  *)
(* name (find_data_element_usage), and tabulates used and unused data      *)
(* elements.  Spec models the script from the fetch to the two tables;     *)
(* SpecPattern models the pattern of one name searched in one text.        *)
(***************************************************************************)
EXTENDS Integers, Sequences, FiniteSets, TLC

(***************************************************************************)
(* Characters.  A text is a sequence of one-character strings.             *)
(***************************************************************************)
PCT == "%"
DQ == "\""
SQ == "'"
BS == "\\"
DOT == "."

(***************************************************************************)
(* Bounds of the model.                                                    *)
(***************************************************************************)
\* At most this many entities in data_elements + rule_comps + extensions.
MaxSubjects == 3
\* At most this many fetched rules.
MaxRules == 1
\* At most this many characters in a text searched under SpecPattern.
MaxTextLen == 5

(***************************************************************************)
(* Regular expressions (module re).  A compiled pattern is a sequence of   *)
(* nodes: a literal character, any character (an unescaped "."), an        *)
(* optional group "( ... )?" and a group of alternatives "( ..|.. )".      *)
(***************************************************************************)
Lit(c) == [k |-> "lit", c |-> c]
AnyChar == [k |-> "any"]
Opt(sub) == [k |-> "opt", sub |-> sub]
Alt(alts) == [k |-> "alt", alts |-> alts]

\* Characters re.escape puts a backslash before (those of this alphabet and
\* the group syntax).
SpecialChars == {DOT, BS, "(", ")", "|", "?", "*", "+", "[", "]", "{", "}", "^", "$"}

\* A mutant of re_escape: the name goes into the pattern as it is.
RECURSIVE re_escape_none(_)
re_escape_none(s) ==
    IF s = <<>> THEN <<>> ELSE <<Head(s)>> \o re_escape_none(Tail(s))

\* re.escape(s): s with a backslash before every special character.
RECURSIVE re_escape(_)
re_escape(s) ==
    IF s = <<>> THEN <<>>
    ELSE (IF Head(s) \in SpecialChars THEN <<BS, Head(s)>> ELSE <<Head(s)>>)
         \o re_escape(Tail(s))

\* The nodes a group-free pattern text compiles to: backslash and a character
\* is that character, a bare "." is any character, another character is
\* itself.  (re_escape never leaves a backslash last.)
RECURSIVE Atoms(_)
Atoms(p) ==
    IF p = <<>> THEN <<>>
    ELSE IF Head(p) = BS /\ Len(p) >= 2
         THEN <<Lit(p[2])>> \o Atoms(Tail(Tail(p)))
    ELSE IF Head(p) = DOT THEN <<AnyChar>> \o Atoms(Tail(p))
    ELSE <<Lit(Head(p))>> \o Atoms(Tail(p))

\* The positions of t (0..Len(t), characters consumed) a match of node n, or
\* of the sequence r of nodes, can end at when it starts at a position of S.
RECURSIVE EndsSeq(_, _, _), EndsNode(_, _, _)
EndsNode(n, t, S) ==
    CASE n.k = "lit" -> {q + 1 : q \in {q \in S : q < Len(t) /\ t[q + 1] = n.c}}
      [] n.k = "any" -> {q + 1 : q \in {q \in S : q < Len(t)}}
      [] n.k = "opt" -> S \cup EndsSeq(n.sub, t, S)
      [] n.k = "alt" -> UNION {EndsSeq(n.alts[a], t, S) : a \in DOMAIN n.alts}
EndsSeq(r, t, S) ==
    IF r = <<>> THEN S ELSE EndsSeq(Tail(r), t, EndsNode(Head(r), t, S))

\* re.search(pattern, t) finds a match: the pattern matches from some position.
re_search(r, t) == EndsSeq(r, t, 0 .. Len(t)) # {}

(***************************************************************************)
(* The pattern of a data element's name (find_data_element_usage).         *)
(***************************************************************************)
\* slashes = re.escape('\\\\'): the two backslashes of an escaped backslash.
slashes == re_escape(<<BS, BS>>)

\* enclosing = (%|(slashes)?"|(slashes)?')
enclosing ==
    Alt(<< <<Lit(PCT)>>,
           <<Opt(Atoms(slashes)), Lit(DQ)>>,
           <<Opt(Atoms(slashes)), Lit(SQ)>> >>)

\* A mutant of Pattern: the closing delimiter is the opening one.
PatternSameDelimiter(de_name) ==
    <<Alt(<< <<Lit(PCT)>> \o Atoms(re_escape(de_name)) \o <<Lit(PCT)>>,
             <<Opt(Atoms(slashes)), Lit(DQ)>> \o Atoms(re_escape(de_name))
                \o <<Opt(Atoms(slashes)), Lit(DQ)>>,
             <<Opt(Atoms(slashes)), Lit(SQ)>> \o Atoms(re_escape(de_name))
                \o <<Opt(Atoms(slashes)), Lit(SQ)>> >>)>>

\* A mutant of Pattern: the name is not escaped.
PatternUnescaped(de_name) ==
    <<enclosing>> \o Atoms(re_escape_none(de_name)) \o <<enclosing>>

\* pattern = enclosing + re.escape(de_name) + enclosing
Pattern(de_name) == <<enclosing>> \o Atoms(re_escape(de_name)) \o <<enclosing>>

(***************************************************************************)
(* Entities.  An entity is the mapping the property returns: its type, its *)
(* attributes' name and delegate_descriptor_id, and for a rule component   *)
(* the name of its rule.  lp.extractAttributes and str are the library's:  *)
(* ser is what extracting the entity's attributes does ("ok", or the       *)
(* exception it raises) and text is the string str(attributes) when "ok".  *)
(* delegate_descriptor_id is the sequence of the markers ::actions::,      *)
(* ::conditions::, ::events:: the identifier contains, leftmost first.     *)
(***************************************************************************)
Entity(type, name, ser, text, ddid, rule_name) ==
    [type |-> type, name |-> name, ser |-> ser, text |-> text,
     delegate_descriptor_id |-> ddid, rule_name |-> rule_name]

NameA == <<"a">>
NameB == <<"b">>
Names == {NameA, NameB}

\* %a% : the name a between percent signs.
TextA == <<PCT, "a", PCT>>
\* 'b" : the name b between two different quotes.
TextB == <<SQ, "b", DQ>>
\* a : the name a with no delimiter.
TextBare == <<"a">>

DataElementChoices ==
    {Entity("data_elements", n, "ok", t, <<>>, "None") :
        n \in Names, t \in {TextA, TextB}}
    \cup {Entity("data_elements", n, "TypeError", <<>>, <<>>, "None") : n \in Names}

DescriptorChoices ==
    {<<"actions">>, <<"conditions">>, <<"events">>, <<"conditions", "actions">>, <<>>}

RuleComponentChoices ==
    {Entity("rule_components", <<"c">>, "ok", t, d, "r1") :
        t \in {TextA, TextBare}, d \in DescriptorChoices}

ExtensionChoices ==
    {Entity("extensions", <<"x">>, "ok", TextB, <<>>, "None"),
     Entity("extensions", <<"x">>, "KeyError", <<>>, <<>>, "None")}

RuleChoices == {Entity("rules", <<"r1">>, "ok", TextA, <<>>, "None")}

\* The sequences over S of length n.
SeqsOfLen(S, n) == [1 .. n -> S]
\* The sequences over S of length at most n.
SeqsUpTo(S, n) == UNION {SeqsOfLen(S, m) : m \in 0 .. n}

(***************************************************************************)
(* State of the script.                                                    *)
(***************************************************************************)
VARIABLES
    data_elements,      \* my_property.getDataElements()
    rules,              \* my_property.getRules()
    rule_comps,         \* my_property.getRuleComponents()
    extensions,         \* my_property.getExtensions()
    rule_actions,       \* the rule components holding ::actions::
    rule_conditions,    \* the rule components holding ::conditions::
    rule_events,        \* the rule components holding ::events::
    pc,                 \* where the script is
    i,                  \* find_data_element_usage: index of data_element
    j,                  \* find_data_element_usage: index of subject
    results,            \* find_data_element_usage: the dict being filled
    recorded,           \* the appends made, as (data_element, subject), in order
    de_usage,           \* what find_data_element_usage returned
    output_list,        \* the rows of the used table
    not_used,           \* the names of the unused table
    raised,             \* the exception that ended the script, or "none"
    p_name,             \* SpecPattern: the name the pattern is built for
    p_text,             \* SpecPattern: the text searched
    p_found             \* SpecPattern: "pending", "match" or "none"

scriptVars ==
    <<data_elements, rules, rule_comps, extensions, rule_actions, rule_conditions,
      rule_events, pc, i, j, results, recorded, de_usage, output_list, not_used,
      raised>>
patternVars == <<p_name, p_text, p_found>>
vars == <<scriptVars, patternVars>>

(***************************************************************************)
(* References.  The lists hold references to the fetched objects: a        *)
(* reference is the collection and the index the object was fetched at.    *)
(***************************************************************************)
Ref(coll, idx) == [coll |-> coll, idx |-> idx]
Collection(coll) ==
    CASE coll = "data_elements" -> data_elements
      [] coll = "rule_comps" -> rule_comps
      [] coll = "extensions" -> extensions
      [] coll = "rules" -> rules
Deref(ref) == Collection(ref.coll)[ref.idx]
RefsOf(coll) == [idx \in 1 .. Len(Collection(coll)) |-> Ref(coll, idx)]

\* A python dict, in insertion order: a sequence of [key, value].
Keys(d) == {d[e].key : e \in DOMAIN d}
Get(d, key) == d[CHOOSE e \in DOMAIN d : d[e].key = key].value

\* A mutant of SetDefaultAppend: the new item goes first.
SetDefaultPrepend(d, key, item) ==
    IF key \in Keys(d)
    THEN [e \in DOMAIN d |->
            IF d[e].key = key THEN [key |-> key, value |-> <<item>> \o d[e].value]
            ELSE d[e]]
    ELSE Append(d, [key |-> key, value |-> <<item>>])

\* d.setdefault(key, []).append(item)
SetDefaultAppend(d, key, item) ==
    IF key \in Keys(d)
    THEN [e \in DOMAIN d |->
            IF d[e].key = key THEN [key |-> key, value |-> Append(d[e].value, item)]
            ELSE d[e]]
    ELSE Append(d, [key |-> key, value |-> <<item>>])

(***************************************************************************)
(* The state after the fetch.                                              *)
(***************************************************************************)
Init ==
    /\ data_elements \in SeqsUpTo(DataElementChoices, MaxSubjects)
    /\ rule_comps \in SeqsUpTo(RuleComponentChoices, MaxSubjects - Len(data_elements))
    /\ extensions \in SeqsUpTo(ExtensionChoices,
                               MaxSubjects - Len(data_elements) - Len(rule_comps))
    /\ rules \in SeqsUpTo(RuleChoices, MaxRules)
    /\ rule_actions = <<>>
    /\ rule_conditions = <<>>
    /\ rule_events = <<>>
    /\ pc = "classify"
    /\ i = 1
    /\ j = 1
    /\ results = <<>>
    /\ recorded = <<>>
    /\ de_usage = <<>>
    /\ output_list = <<>>
    /\ not_used = {}
    /\ raised = "none"
    /\ p_name = <<>>
    /\ p_text = <<>>
    /\ p_found = "pending"

(***************************************************************************)
(* Classification of the rule components, and the assertion on it.         *)
(***************************************************************************)
\* '::marker::' in rc['attributes']['delegate_descriptor_id']
Holds(ref, marker) ==
    \E m \in DOMAIN Deref(ref).delegate_descriptor_id :
        Deref(ref).delegate_descriptor_id[m] = marker

\* [rc for rc in rule_comps if '::marker::' in ...]
WithMarker(marker) ==
    SelectSeq(RefsOf("rule_comps"), LAMBDA rc : Holds(rc, marker))

\* assert len(rule_comps) == len(rule_actions) + len(rule_conditions) + len(rule_events)
AssertionHolds ==
    Len(rule_comps) =
        Len(WithMarker("actions")) + Len(WithMarker("conditions"))
        + Len(WithMarker("events"))

scanVars == <<i, j, results, recorded, de_usage>>
tableVars == <<output_list, not_used>>
fetched == <<data_elements, rules, rule_comps, extensions>>
classes == <<rule_actions, rule_conditions, rule_events>>

ClassifyRuleComponents ==
    /\ pc = "classify"
    /\ AssertionHolds
    /\ rule_actions' = WithMarker("actions")
    /\ rule_conditions' = WithMarker("conditions")
    /\ rule_events' = WithMarker("events")
    /\ pc' = "scan"
    /\ UNCHANGED <<fetched, scanVars, tableVars, raised, patternVars>>

ClassifyAssertionFails ==
    /\ pc = "classify"
    /\ ~AssertionHolds
    /\ rule_actions' = WithMarker("actions")
    /\ rule_conditions' = WithMarker("conditions")
    /\ rule_events' = WithMarker("events")
    /\ raised' = "AssertionError"
    /\ pc' = "aborted"
    /\ UNCHANGED <<fetched, scanVars, tableVars, patternVars>>

(***************************************************************************)
(* find_occurrence_in_attributes and find_data_element_usage.              *)
(***************************************************************************)
\* A mutant of Subjects: the rules are searched too.
SubjectsWithRules ==
    RefsOf("data_elements") \o RefsOf("rule_comps") \o RefsOf("extensions")
    \o RefsOf("rules")

\* data_elements + rule_comps + extensions
Subjects == RefsOf("data_elements") \o RefsOf("rule_comps") \o RefsOf("extensions")

\* A mutant of IsSubjectItself: nothing is skipped.
NeverItself(subject, data_element) == FALSE

\* subject == data_element: equality of the two mappings.
IsSubjectItself(subject, data_element) == Deref(subject) = Deref(data_element)

\* find_occurrence_in_attributes(subject, pattern): "match" for a match object,
\* "none" for None (no match, or a TypeError caught and printed), and the
\* exception's name when extracting the attributes raises another exception.
find_occurrence_in_attributes(subject, pattern) ==
    CASE Deref(subject).ser = "ok" ->
            IF re_search(pattern, Deref(subject).text) THEN "match" ELSE "none"
      [] Deref(subject).ser = "TypeError" -> "none"
      [] OTHER -> Deref(subject).ser

data_element == Ref("data_elements", i)
de_name == Deref(data_element).name
InLoop == pc = "scan" /\ i <= Len(data_elements) /\ j <= Len(Subjects)

\* The next subject, or the next data element and the first subject.
Advance ==
    IF j < Len(Subjects)
    THEN j' = j + 1 /\ i' = i
    ELSE j' = 1 /\ i' = i + 1

\* if subject == data_element: continue
SkipSubjectItself ==
    /\ InLoop
    /\ IsSubjectItself(Subjects[j], data_element)
    /\ Advance
    /\ UNCHANGED <<fetched, classes, pc, results, recorded, de_usage, tableVars,
                   raised, patternVars>>

\* if find_occurrence_in_attributes(...): results.setdefault(de_name, []).append(subject)
RecordOccurrence ==
    /\ InLoop
    /\ ~IsSubjectItself(Subjects[j], data_element)
    /\ find_occurrence_in_attributes(Subjects[j], Pattern(de_name)) = "match"
    /\ results' = SetDefaultAppend(results, de_name, Subjects[j])
    /\ recorded' = Append(recorded, [d |-> data_element, c |-> Subjects[j]])
    /\ Advance
    /\ UNCHANGED <<fetched, classes, pc, de_usage, tableVars, raised, patternVars>>

\* A mutant of NoOccurrence: the key is set to an empty list before the test.
NoOccurrenceSetsDefault ==
    /\ InLoop
    /\ ~IsSubjectItself(Subjects[j], data_element)
    /\ find_occurrence_in_attributes(Subjects[j], Pattern(de_name)) = "none"
    /\ results' = IF de_name \in Keys(results) THEN results
                  ELSE Append(results, [key |-> de_name, value |-> <<>>])
    /\ Advance
    /\ UNCHANGED <<fetched, classes, pc, recorded, de_usage, tableVars, raised,
                   patternVars>>

\* find_occurrence_in_attributes returned None: nothing is recorded.
NoOccurrence ==
    /\ InLoop
    /\ ~IsSubjectItself(Subjects[j], data_element)
    /\ find_occurrence_in_attributes(Subjects[j], Pattern(de_name)) = "none"
    /\ Advance
    /\ UNCHANGED <<fetched, classes, pc, results, recorded, de_usage, tableVars,
                   raised, patternVars>>

\* An exception find_occurrence_in_attributes does not catch leaves
\* find_data_element_usage and ends the script.
OccurrenceRaises ==
    /\ InLoop
    /\ ~IsSubjectItself(Subjects[j], data_element)
    /\ find_occurrence_in_attributes(Subjects[j], Pattern(de_name))
            \notin {"match", "none"}
    /\ raised' = find_occurrence_in_attributes(Subjects[j], Pattern(de_name))
    /\ pc' = "aborted"
    /\ UNCHANGED <<fetched, classes, scanVars, tableVars, patternVars>>

\* return results; de_usage = find_data_element_usage()
ReturnResults ==
    /\ pc = "scan"
    /\ i > Len(data_elements)
    /\ de_usage' = results
    /\ pc' = "report"
    /\ UNCHANGED <<fetched, classes, i, j, results, recorded, tableVars, raised,
                   patternVars>>

(***************************************************************************)
(* The used table and the unused table.                                    *)
(***************************************************************************)
\* The (key, subject) pairs of a dict of lists: the keys in insertion order,
\* each key's list in its order.
RECURSIVE Flatten(_)
Flatten(d) ==
    IF d = <<>> THEN <<>>
    ELSE [s \in DOMAIN Head(d).value |-> [key |-> Head(d).key, subj |-> Head(d).value[s]]]
         \o Flatten(Tail(d))

\* 'rule_' + group(1)
RuleUsage(marker) ==
    CASE marker = "actions" -> "rule_actions"
      [] marker = "conditions" -> "rule_conditions"
      [] marker = "events" -> "rule_events"

\* A mutant of MarkerFound: the last marker of the identifier, not the first.
MarkerLast(ddid) == ddid[Len(ddid)]

\* re.search(r'::(actions|conditions|events)::', ddid).group(1): the leftmost.
MarkerFound(ddid) == Head(ddid)

\* re.search(...) is None: .group(1) raises AttributeError.
NoMarker(subj) ==
    /\ Deref(subj).type = "rule_components"
    /\ Deref(subj).delegate_descriptor_id = <<>>

usage_in_type(subj) ==
    IF Deref(subj).type # "rule_components" THEN Deref(subj).type
    ELSE RuleUsage(MarkerFound(Deref(subj).delegate_descriptor_id))

usage_in_rule_name(subj) ==
    IF Deref(subj).type # "rule_components" THEN "None" ELSE Deref(subj).rule_name

Row(key, subj) ==
    [data_element_name |-> key,
     usage_in_type |-> usage_in_type(subj),
     usage_in_name |-> Deref(subj).name,
     usage_in_rule_name |-> usage_in_rule_name(subj)]

Rows(d) == [r \in DOMAIN Flatten(d) |-> Row(Flatten(d)[r].key, Flatten(d)[r].subj)]

RowRaises(d) == \E r \in DOMAIN Flatten(d) : NoMarker(Flatten(d)[r].subj)

\* for de_name in de_usage.keys(): output_list += usage; usage_df = ...
BuildUsedTable ==
    /\ pc = "report"
    /\ ~RowRaises(de_usage)
    /\ Rows(de_usage) # <<>>
    /\ output_list' = Rows(de_usage)
    /\ pc' = "unused"
    /\ UNCHANGED <<fetched, classes, scanVars, not_used, raised, patternVars>>

\* A matching rule component whose identifier holds no marker.
UsedTableNoMarker ==
    /\ pc = "report"
    /\ RowRaises(de_usage)
    /\ raised' = "AttributeError"
    /\ pc' = "aborted"
    /\ UNCHANGED <<fetched, classes, scanVars, tableVars, patternVars>>

\* usage_df.set_index('data_element_name') on a frame with no rows, so no columns.
UsedTableEmpty ==
    /\ pc = "report"
    /\ ~RowRaises(de_usage)
    /\ Rows(de_usage) = <<>>
    /\ raised' = "KeyError: data_element_name"
    /\ pc' = "aborted"
    /\ UNCHANGED <<fetched, classes, scanVars, tableVars, patternVars>>

\* A mutant of NotUsed: the keys of the usage mapping are not taken out.
AllNames(des, usage) == {des[d].name : d \in DOMAIN des}

\* [data_element['attributes']['name'] for ...] - de_usage.keys(): a set.
NotUsed(des, usage) == {des[d].name : d \in DOMAIN des} \ Keys(usage)

BuildUnusedTable ==
    /\ pc = "unused"
    /\ not_used' = NotUsed(data_elements, de_usage)
    /\ pc' = "done"
    /\ UNCHANGED <<fetched, classes, scanVars, output_list, raised, patternVars>>

Next ==
    \/ ClassifyRuleComponents
    \/ ClassifyAssertionFails
    \/ SkipSubjectItself
    \/ RecordOccurrence
    \/ NoOccurrence
    \/ OccurrenceRaises
    \/ ReturnResults
    \/ BuildUsedTable
    \/ UsedTableNoMarker
    \/ UsedTableEmpty
    \/ BuildUnusedTable

Spec == Init /\ [][Next]_vars

(***************************************************************************)
(* The pattern of one name searched in one text.                           *)
(***************************************************************************)
Alphabet == {"a", DOT, PCT, DQ, SQ, BS}
PatternNames == {<<"a">>, <<DOT>>, <<"a", DOT>>}

InitPattern ==
    /\ p_name \in PatternNames
    /\ p_text \in SeqsUpTo(Alphabet, MaxTextLen)
    /\ p_found = "pending"
    /\ data_elements = <<>>
    /\ rule_comps = <<>>
    /\ extensions = <<>>
    /\ rules = <<>>
    /\ rule_actions = <<>>
    /\ rule_conditions = <<>>
    /\ rule_events = <<>>
    /\ pc = "pattern"
    /\ i = 1
    /\ j = 1
    /\ results = <<>>
    /\ recorded = <<>>
    /\ de_usage = <<>>
    /\ output_list = <<>>
    /\ not_used = {}
    /\ raised = "none"

\* re.search(pattern, str(attributes)) with the pattern of p_name.
SearchText ==
    /\ pc = "pattern"
    /\ p_found = "pending"
    /\ p_found' = IF re_search(Pattern(p_name), p_text) THEN "match" ELSE "none"
    /\ UNCHANGED <<scriptVars, p_name, p_text>>

NextPattern == SearchText

SpecPattern == InitPattern /\ [][NextPattern]_vars

(***************************************************************************)
(* Properties.                                                             *)
(***************************************************************************)
DataElementRefs == {Ref("data_elements", d) : d \in 1 .. Len(data_elements)}
\* The entities of the lists find_data_element_usage is given.
SearchedRefs ==
    UNION {{Ref(coll, idx) : idx \in 1 .. Len(Collection(coll))} :
            coll \in {"data_elements", "rule_comps", "extensions"}}
\* find_data_element_usage has returned its mapping.
Returned == pc \in {"report", "unused", "done"}
\* The pattern of d's name matches the serialized attributes of c.
PatternMatches(d, c) ==
    /\ Deref(c).ser = "ok"
    /\ re_search(Pattern(Deref(d).name), Deref(c).text)
\* The position of a searched entity in data_elements + rule_comps + extensions.
Pos(c) == CHOOSE k \in DOMAIN Subjects : Subjects[k] = c
\* The scan for d has gone past the candidate c.
Scanned(d, c) ==
    \/ Returned
    \/ pc = "scan" /\ (i > d.idx \/ (i = d.idx /\ j > Pos(c)))
SameName(d) == {e \in DataElementRefs : Deref(e).name = Deref(d).name}
\* s occurs in t.
Contains(t, s) ==
    \E k \in 0 .. Len(t) - Len(s) : SubSeq(t, k + 1, k + Len(s)) = s

\* C1 as stated: once the usage mapping is returned, the name of every data
\* element whose pattern matches no entity other than itself is not a key.
C1_Original ==
    Returned =>
        \A d \in DataElementRefs :
            (\A c \in SearchedRefs : c # d => ~PatternMatches(d, c))
                => Deref(d).name \notin Keys(de_usage)

\* C1 amended: once the usage mapping is returned, the name of a data element
\* is not a key when no data element of that name has its pattern match an
\* entity other than itself; a key is never mapped to an empty list.
C1_Amended ==
    Returned =>
        /\ \A d \in DataElementRefs :
            (\A e \in SameName(d) : \A c \in SearchedRefs :
                    c # e => ~PatternMatches(e, c))
                => Deref(d).name \notin Keys(de_usage)
        /\ \A key \in Keys(de_usage) : Get(de_usage, key) # <<>>

C1_Witness ==
    /\ Returned
    /\ \E d \in DataElementRefs :
        /\ PatternMatches(d, d)
        /\ \A e \in SameName(d) : \A c \in SearchedRefs :
                c # e => ~PatternMatches(e, c)
        /\ Deref(d).name \notin Keys(de_usage)
        /\ Keys(de_usage) # {}

\* C2: no entity is recorded as a match of the scan for itself.
C2_NoSelfMatch ==
    /\ \A r \in DOMAIN recorded : recorded[r].c # recorded[r].d
    /\ Len(recorded) = Len(Flatten(results))

C2_Witness ==
    \E d \in DataElementRefs :
        /\ PatternMatches(d, d)
        /\ Scanned(d, d)
        /\ \E r \in DOMAIN recorded : recorded[r].d = d

C4_SkipByIdentity ==
    \A d \in DataElementRefs : \A c \in SearchedRefs :
        (c # d /\ Deref(c) = Deref(d) /\ PatternMatches(d, c) /\ Scanned(d, c))
            => \E r \in DOMAIN recorded : recorded[r].d = d /\ recorded[r].c = c

\* C5 as stated: no failure to serialize a candidate's attributes, of any
\* kind, leaves find_data_element_usage.
C5_FailureIsolated ==
    \A c \in SearchedRefs : Deref(c).ser # "ok" => raised # Deref(c).ser

\* The places of the list L where the order of the scan is broken: an entity
\* followed by one that is not after it in data_elements + rule_comps + extensions.
Descents(L) == {k \in 1 .. Len(L) - 1 : Pos(L[k + 1]) <= Pos(L[k])}
Carriers(key) == {d \in DataElementRefs : Deref(d).name = key}
\* The entities recorded by the scans for the data elements named key, in order.
RecordedFor(key) ==
    [r \in DOMAIN SelectSeq(recorded, LAMBDA m : Deref(m.d).name = key) |->
        SelectSeq(recorded, LAMBDA m : Deref(m.d).name = key)[r].c]
\* The appends follow the scan: data element after data element, candidate
\* after candidate.
InScanOrder(m, n) ==
    \/ m.d.idx < n.d.idx
    \/ m.d.idx = n.d.idx /\ Pos(m.c) < Pos(n.c)

\* C6 as stated: the list of every name is in the order of the scan, a
\* subsequence of data_elements + rule_comps + extensions.
C6_Original ==
    Returned => \A key \in Keys(de_usage) : Descents(Get(de_usage, key)) = {}

\* C6 amended: the list of a name is, for the data elements carrying the name
\* one after the other, a subsequence of data_elements + rule_comps +
\* extensions each; for a name one data element carries it is one subsequence.
C6_Amended ==
    Returned =>
        /\ \A key \in Keys(de_usage) :
            /\ Cardinality(Descents(Get(de_usage, key))) < Cardinality(Carriers(key))
            /\ Get(de_usage, key) = RecordedFor(key)
        /\ \A r \in 1 .. Len(recorded) - 1 : InScanOrder(recorded[r], recorded[r + 1])

C6_Witness ==
    /\ Returned
    /\ \E key \in Keys(de_usage) :
        /\ Cardinality(Carriers(key)) = 1
        /\ Len(Get(de_usage, key)) >= 2
        /\ Head(Get(de_usage, key)).coll = "data_elements"
        /\ Get(de_usage, key)[Len(Get(de_usage, key))].coll # "data_elements"

\* The delimiters: %, a quote, a quote after an escaped backslash.
Delimiters == {<<PCT>>, <<DQ>>, <<SQ>>, <<BS, BS, DQ>>, <<BS, BS, SQ>>}

\* C7: the pattern of a name matches a text exactly when the text holds the
\* name, character for character, right after a delimiter and right before one.
C7_EnclosureSensitive ==
    p_found # "pending" =>
        (p_found = "match" <=>
            \E open \in Delimiters, close \in Delimiters :
                Contains(p_text, open \o p_name \o close))

C7_Witness ==
    /\ p_found = "match"
    /\ p_name = <<DOT>>
    /\ p_text = <<SQ, DOT, BS, BS, DQ>>

\* C10: a name between two delimiters of different kinds is a match.
C10_MixedDelimiters ==
    p_found # "pending" =>
        \A open \in {PCT, DQ, SQ}, close \in {PCT, DQ, SQ} :
            Contains(p_text, <<open>> \o p_name \o <<close>>) => p_found = "match"

C10_Witness ==
    /\ p_found = "match"
    /\ p_text = <<PCT>> \o p_name \o <<DQ>>

UsedTableBuilt == pc \in {"unused", "done"}
\* The entity the r-th row of the used table is about.
RowSubject(r) == Flatten(de_usage)[r].subj
IsRuleComponent(s) == Deref(s).type = "rule_components"

\* C8 as stated: the row of a rule component holding ::actions:: has type
\* rule_actions, holding ::conditions:: rule_conditions, holding ::events::
\* rule_events, and its rule's name; another row has the entity's type and no
\* rule name.
C8_Original ==
    UsedTableBuilt =>
        /\ Len(output_list) = Len(Flatten(de_usage))
        /\ \A r \in DOMAIN output_list :
            IF IsRuleComponent(RowSubject(r))
            THEN /\ \A marker \in {"actions", "conditions", "events"} :
                        Holds(RowSubject(r), marker)
                            => output_list[r].usage_in_type = RuleUsage(marker)
                 /\ output_list[r].usage_in_rule_name = Deref(RowSubject(r)).rule_name
                 /\ output_list[r].usage_in_rule_name # "None"
            ELSE /\ output_list[r].usage_in_type = Deref(RowSubject(r)).type
                 /\ output_list[r].usage_in_rule_name = "None"

\* C8 amended: the row of a rule component has the type of the leftmost marker
\* its identifier holds, and its rule's name; another row has the entity's
\* type and no rule name.
C8_Amended ==
    UsedTableBuilt =>
        /\ Len(output_list) = Len(Flatten(de_usage))
        /\ \A r \in DOMAIN output_list :
            IF IsRuleComponent(RowSubject(r))
            THEN /\ \A marker \in {"actions", "conditions", "events"} :
                        Deref(RowSubject(r)).delegate_descriptor_id[1] = marker
                            => output_list[r].usage_in_type = RuleUsage(marker)
                 /\ output_list[r].usage_in_type
                        \in {"rule_actions", "rule_conditions", "rule_events"}
                 /\ output_list[r].usage_in_rule_name = Deref(RowSubject(r)).rule_name
                 /\ output_list[r].usage_in_rule_name # "None"
            ELSE /\ output_list[r].usage_in_type = Deref(RowSubject(r)).type
                 /\ output_list[r].usage_in_rule_name = "None"

C8_Witness ==
    /\ pc = "done"
    /\ \E r \in DOMAIN output_list :
        /\ IsRuleComponent(RowSubject(r))
        /\ Len(Deref(RowSubject(r)).delegate_descriptor_id) = 2

\* C9: every entity in a list of the usage mapping is one of data_elements,
\* rule_comps or extensions, and no rule is scanned or recorded.
C9_SearchedUniverse ==
    /\ \A e \in DOMAIN results : \A k \in DOMAIN results[e].value :
            /\ results[e].value[k] \in SearchedRefs
            /\ results[e].value[k].coll # "rules"
    /\ \A e \in DOMAIN de_usage : \A k \in DOMAIN de_usage[e].value :
            de_usage[e].value[k] \in SearchedRefs
    /\ \A r \in DOMAIN recorded : recorded[r].c.coll # "rules"

C9_Witness ==
    /\ Returned
    /\ rules # <<>>
    /\ Keys(de_usage) # {}
    /\ \E d \in DataElementRefs : PatternMatches(d, Ref("rules", 1))

====
